---- MODULE Spec2Model ----
(***************************************************************************)
(* A model of tree-tables (src/src/app.rs): the row tree, the column        *)
(* schema, the bottom-up update pass RowData::update, the row grid          *)
(* RowData::render, and the file and column-editor handlers of              *)
(* TreeTablesApp::update.                                                   *)
(*                                                                          *)
(* Specifications, all over the same variables and frame actions:           *)
(*   EngineSpec  the update pass alone, on every input tree and schema;     *)
(*   Spec        file operations, close dialog and the "Edit column" window;*)
(*   EditSpec    opening, saving, and the expand, checkbox, remove and '+'  *)
(*               widgets of the row grid;                                   *)
(*   EntrySpec   value entry into the cells, and saving;                    *)
(*   ColumnSpec  header double-click, add column, OK, remove column, Open.  *)
(* Not modelled: the text edits (title, row name, caption, unit), the type  *)
(* and source selection and the factor of the "Edit column" window, and     *)
(* show_decimals / format_float.                                            *)
(*                                                                          *)
(* f64 values are modelled as integers of a reduced range: + and * are      *)
(* exact up to F64Max and overflow to INFINITY beyond it, as f64 does.      *)
(* NaN is not modelled: with the factors and stored values of the checked   *)
(* inputs (no zero factor, no negative value) no operation produces it.     *)
(***************************************************************************)
EXTENDS Integers, Sequences, FiniteSets, TLC

VARIABLES
    tree_table,       \* TreeTablesApp.tree_table: [title_text, column_configs, root_row]
    filename,         \* TreeTablesApp.filename
    file_modified,    \* TreeTablesApp.file_modified
    edit_column_idx,  \* TreeTablesApp.edit_column_idx: <<>> is None, <<i>> is Some(i), i 0-based
    close_requested,  \* TreeTablesApp.close_requested
    process,          \* "running", "exited", or the message of the panic that ended it
    io,               \* outcome of the file operation of the last frame
    ui_event,         \* the click or drag on the row grid in the last frame
    last_pass         \* the last run of RowData::update on the root: its input and output

vars == <<tree_table, filename, file_modified, edit_column_idx, close_requested,
          process, io, ui_event, last_pass>>

----------------------------------------------------------------------------
(* Bounds of the checked input space *)

\* number of rows of an input tree (root included)
MaxRows == 3

\* number of consecutive update passes on one input
MaxPasses == 2

\* column identities of the input schemas, in schema order
ColIds == <<"a", "b">>

\* the values a stored cell of an input tree may hold (a cell may also be absent)
StoredValues == {1}

\* the factors of the MultiplyByFactor columns of the input schemas
Factors == {2}

IdSet == {ColIds[i] : i \in 1..Len(ColIds)}

\* the largest finite magnitude of the modelled f64 (f64::MAX of the reduced range)
F64Max == 1000

\* the values a drag or an entry sets a cell to
DragValues == {2, F64Max}

----------------------------------------------------------------------------
(* Data model *)

\* f64::INFINITY; its negation is f64::NEG_INFINITY
INFINITY == F64Max + 1

\* the f64 nearest to an exact result: a magnitude above F64Max overflows
f64(x) == IF x > F64Max THEN INFINITY ELSE IF x < -F64Max THEN -INFINITY ELSE x

\* f64 addition and multiplication
f64_add(x, y) == f64(x + y)
f64_mul(x, y) == f64(x * y)

\* f64::is_finite
is_finite(x) == -F64Max <= x /\ x <= F64Max

\* enum ColumnType
Number == [tag |-> "Number"]
Text == [tag |-> "Text"]
MultiplyByFactor(input_col_id, factor) ==
    [tag |-> "MultiplyByFactor", input_col_id |-> input_col_id, factor |-> factor]
RowSum(col_ids) == [tag |-> "RowSum", col_ids |-> col_ids]

\* struct ColumnConfig
ColumnConfig(id, caption, unit, col_type) ==
    [id |-> id, caption |-> caption, unit |-> unit, col_type |-> col_type]

\* HashMap::new()
EmptyMap == [k \in {} |-> 0]

\* col_data.get(col_id).unwrap_or(&0.0)
Get(col_data, col_id) ==
    IF col_id \in DOMAIN col_data THEN col_data[col_id] ELSE 0

\* col_data.insert(col_id, value)
Insert(col_data, col_id, value) ==
    [k \in (DOMAIN col_data) \cup {col_id} |->
        IF k = col_id THEN value ELSE col_data[k]]

\* struct RowData
RowData(name, col_data, children, enabled, expanded, edit_name) ==
    [name |-> name, col_data |-> col_data, children |-> children,
     enabled |-> enabled, expanded |-> expanded, edit_name |-> edit_name]

\* impl Default for RowData
RowData_default == RowData("", EmptyMap, <<>>, TRUE, TRUE, FALSE)

\* the positions of the rows of a tree: the child indices from the root down
RECURSIVE PathsOf(_)
PathsOf(row) ==
    {<<>>} \cup UNION {{<<i>> \o p : p \in PathsOf(row.children[i])} :
                            i \in 1..Len(row.children)}

\* the row at a position
RECURSIVE RowAt(_, _)
RowAt(row, p) ==
    IF Len(p) = 0 THEN row ELSE RowAt(row.children[p[1]], SubSeq(p, 2, Len(p)))

IsLeaf(row) == Len(row.children) = 0

----------------------------------------------------------------------------
(* RowData::update, the bottom-up pass *)

\* a slip: the product is taken of the column's own entry (col_id for input_col_id)
ScaledValueOfOwnColumn(child, col_cfg) ==
    f64_mul(Get(child.col_data, col_cfg.id), col_cfg.col_type.factor)

\* the product child.col_data.get(input_col_id).unwrap_or(&0.0) * factor
ScaledValue(child, col_cfg) ==
    f64_mul(Get(child.col_data, col_cfg.col_type.input_col_id), col_cfg.col_type.factor)

\* a slip: the two tests of child.enabled are left out
ContributionOfAnyChild(child, col_cfg) ==
    CASE col_cfg.col_type.tag = "Number" -> Get(child.col_data, col_cfg.id)
      [] col_cfg.col_type.tag = "MultiplyByFactor" -> ScaledValue(child, col_cfg)
      [] OTHER -> 0

\* what one child adds to sum for one column (the match on col_type)
Contribution(child, col_cfg) ==
    CASE col_cfg.col_type.tag = "Number" ->
            IF child.enabled THEN Get(child.col_data, col_cfg.id) ELSE 0
      [] col_cfg.col_type.tag = "Text" -> 0
      [] col_cfg.col_type.tag = "MultiplyByFactor" ->
            IF child.enabled THEN ScaledValue(child, col_cfg) ELSE 0
      [] OTHER -> 0  \* RowSum: todo!() panics, see update_panics

\* a slip: the scaled value is summed and never stored on the child
WriteBackNothing(child, col_cfg) == child

\* what the match on col_type stores on the child: "2. Update the value itself"
WriteBack(child, col_cfg) ==
    IF col_cfg.col_type.tag = "MultiplyByFactor"
    THEN [child EXCEPT !.col_data = Insert(@, col_cfg.id, ScaledValue(child, col_cfg))]
    ELSE child

\* sum after the loop over children 1..i
RECURSIVE SumChildren(_, _, _)
SumChildren(children, col_cfg, i) ==
    IF i = 0 THEN 0
    ELSE f64_add(SumChildren(children, col_cfg, i - 1), Contribution(children[i], col_cfg))

\* a slip: the test for children is left out
HasChildrenAlways(self) == TRUE

\* !self.children.is_empty()
HasChildren(self) == Len(self.children) > 0

\* the body of for col_cfg in column_configs.iter() for one column
UpdateColumn(self, col_cfg) ==
    IF HasChildren(self)
    THEN [self EXCEPT
            !.children = [i \in 1..Len(self.children) |-> WriteBack(self.children[i], col_cfg)],
            !.col_data = Insert(@, col_cfg.id,
                                SumChildren(self.children, col_cfg, Len(self.children)))]
    ELSE self

\* the loop over column_configs, columns k..Len
RECURSIVE UpdateColumns(_, _, _)
UpdateColumns(self, column_configs, k) ==
    IF k > Len(column_configs) THEN self
    ELSE UpdateColumns(UpdateColumn(self, column_configs[k]), column_configs, k + 1)

\* RowData::update: children first, then the row's own columns
RECURSIVE update(_, _)
update(self, column_configs) ==
    UpdateColumns(
        [self EXCEPT !.children =
            [i \in 1..Len(self.children) |-> update(self.children[i], column_configs)]],
        column_configs, 1)

\* RowData::update reaches todo!(): some row with children meets a RowSum column
RECURSIVE update_panics(_, _)
update_panics(self, column_configs) ==
    \/ \E i \in 1..Len(self.children) : update_panics(self.children[i], column_configs)
    \/ /\ HasChildren(self)
       /\ \E k \in 1..Len(column_configs) : column_configs[k].col_type.tag = "RowSum"

----------------------------------------------------------------------------
(* The input space of the update pass *)

\* the value maps of an input row: any subset of the identities is stored
ColDataInputs == UNION {[D -> StoredValues] : D \in SUBSET IdSet}

\* the input rows with exactly n rows in their subtree, and the child lists
\* with m rows in all
RECURSIVE RowsOfSize(_), Forests(_)
Forests(m) ==
    IF m = 0 THEN {<<>>}
    ELSE UNION {{<<t>> \o f : t \in RowsOfSize(k), f \in Forests(m - k)} : k \in 1..m}
RowsOfSize(n) ==
    {RowData("", cd, ch, en, TRUE, FALSE) :
        cd \in ColDataInputs, ch \in Forests(n - 1), en \in BOOLEAN}

\* the input trees; a root's enabled is never read by the pass
TreeInputs == {t \in UNION {RowsOfSize(n) : n \in 1..MaxRows} : t.enabled}

ColumnTypeInputs ==
    {Number, Text, RowSum(<<>>)}
        \cup {MultiplyByFactor(s, f) : s \in IdSet, f \in Factors}

\* the input schemas: column i carries identity ColIds[i] (identities are unique)
SchemaInputs ==
    UNION {{[i \in 1..n |-> ColumnConfig(ColIds[i], "", "", ty[i])] :
                ty \in [1..n -> ColumnTypeInputs]} : n \in 0..Len(ColIds)}

----------------------------------------------------------------------------
(* Persistence: serde_json of TreeTable, ColumnConfig, ColumnType, RowData  *)
(* A JSON text is modelled by the value it denotes.                         *)

JStr(s) == [t |-> "string", v |-> s]
JNum(x) == [t |-> "number", v |-> x]
JNull == [t |-> "null", v |-> 0]
JBool(b) == [t |-> "bool", v |-> b]
JArr(a) == [t |-> "array", v |-> a]
JObj(m) == [t |-> "object", v |-> m]

\* Uuid::new_v4() of the i-th ColumnConfig::default() of one load
UuidPool == <<"uuid-1", "uuid-2", "uuid-3">>

\* Serialize for f64: serde_json writes a number that is not finite as null
f64_to_json(x) == IF is_finite(x) THEN JNum(x) ELSE JNull

\* Serialize for ColumnType (externally tagged enum)
ColumnType_to_json(ty) ==
    CASE ty.tag = "Number" -> JStr("Number")
      [] ty.tag = "Text" -> JStr("Text")
      [] ty.tag = "MultiplyByFactor" ->
            JObj([MultiplyByFactor |-> JArr(<<JStr(ty.input_col_id), f64_to_json(ty.factor)>>)])
      [] OTHER ->
            JObj([RowSum |-> JArr([i \in 1..Len(ty.col_ids) |-> JStr(ty.col_ids[i])])])

\* Serialize for ColumnConfig
ColumnConfig_to_json(cfg) ==
    JObj([id |-> JStr(cfg.id), caption |-> JStr(cfg.caption), unit |-> JStr(cfg.unit),
          col_type |-> ColumnType_to_json(cfg.col_type)])

\* Serialize for RowData
RECURSIVE RowData_to_json(_)
RowData_to_json(row) ==
    JObj([name |-> JStr(row.name),
          col_data |-> JObj([k \in DOMAIN row.col_data |-> f64_to_json(row.col_data[k])]),
          children |-> JArr([i \in 1..Len(row.children) |-> RowData_to_json(row.children[i])]),
          enabled |-> JBool(row.enabled),
          expanded |-> JBool(row.expanded),
          edit_name |-> JBool(row.edit_name)])

\* Serialize for TreeTable: serde_json::to_string(&self)
TreeTable_to_json(tt) ==
    JObj([title_text |-> JStr(tt.title_text),
          column_configs |->
              JArr([i \in 1..Len(tt.column_configs) |-> ColumnConfig_to_json(tt.column_configs[i])]),
          root_row |-> RowData_to_json(tt.root_row)])

\* a field of a JSON object is present and of JSON type ty, or absent when optional
FieldOk(m, f, ty, optional) ==
    IF f \in DOMAIN m THEN m[f].t = ty ELSE optional

\* Deserialize for ColumnType succeeds
ColumnType_ok(j) ==
    \/ j.t = "string" /\ j.v \in {"Number", "Text"}
    \/ /\ j.t = "object"
       /\ \/ /\ DOMAIN j.v = {"MultiplyByFactor"}
             /\ j.v.MultiplyByFactor.t = "array"
             /\ Len(j.v.MultiplyByFactor.v) = 2
             /\ j.v.MultiplyByFactor.v[1].t = "string"
             /\ j.v.MultiplyByFactor.v[2].t = "number"
          \/ /\ DOMAIN j.v = {"RowSum"}
             /\ j.v.RowSum.t = "array"
             /\ \A i \in 1..Len(j.v.RowSum.v) : j.v.RowSum.v[i].t = "string"

\* Deserialize for ColumnType
ColumnType_from_json(j) ==
    IF j.t = "string"
    THEN (IF j.v = "Number" THEN Number ELSE Text)
    ELSE IF "MultiplyByFactor" \in DOMAIN j.v
         THEN MultiplyByFactor(j.v.MultiplyByFactor.v[1].v, j.v.MultiplyByFactor.v[2].v)
         ELSE RowSum([i \in 1..Len(j.v.RowSum.v) |-> j.v.RowSum.v[i].v])

\* Deserialize for ColumnConfig succeeds; #[serde(default)]: every field is optional
ColumnConfig_ok(j) ==
    /\ j.t = "object"
    /\ FieldOk(j.v, "id", "string", TRUE)
    /\ FieldOk(j.v, "caption", "string", TRUE)
    /\ FieldOk(j.v, "unit", "string", TRUE)
    /\ ("col_type" \in DOMAIN j.v => ColumnType_ok(j.v.col_type))

\* Deserialize for ColumnConfig; absent fields come from ColumnConfig::default()
ColumnConfig_from_json(j, i) ==
    ColumnConfig(IF "id" \in DOMAIN j.v THEN j.v.id.v ELSE UuidPool[i],
                 IF "caption" \in DOMAIN j.v THEN j.v.caption.v ELSE "",
                 IF "unit" \in DOMAIN j.v THEN j.v.unit.v ELSE "EUR",
                 IF "col_type" \in DOMAIN j.v THEN ColumnType_from_json(j.v.col_type) ELSE Number)

\* Deserialize for RowData succeeds; #[serde(default)]: every field is optional
RECURSIVE RowData_ok(_)
RowData_ok(j) ==
    /\ j.t = "object"
    /\ FieldOk(j.v, "name", "string", TRUE)
    /\ FieldOk(j.v, "col_data", "object", TRUE)
    /\ ("col_data" \in DOMAIN j.v =>
            \A k \in DOMAIN j.v.col_data.v : j.v.col_data.v[k].t = "number")
    /\ FieldOk(j.v, "children", "array", TRUE)
    /\ ("children" \in DOMAIN j.v =>
            \A i \in 1..Len(j.v.children.v) : RowData_ok(j.v.children.v[i]))
    /\ FieldOk(j.v, "enabled", "bool", TRUE)
    /\ FieldOk(j.v, "expanded", "bool", TRUE)
    /\ FieldOk(j.v, "edit_name", "bool", TRUE)

\* Deserialize for RowData; absent fields come from RowData::default()
RECURSIVE RowData_from_json(_)
RowData_from_json(j) ==
    RowData(IF "name" \in DOMAIN j.v THEN j.v.name.v ELSE RowData_default.name,
            IF "col_data" \in DOMAIN j.v
            THEN [k \in DOMAIN j.v.col_data.v |-> j.v.col_data.v[k].v]
            ELSE RowData_default.col_data,
            IF "children" \in DOMAIN j.v
            THEN [i \in 1..Len(j.v.children.v) |-> RowData_from_json(j.v.children.v[i])]
            ELSE RowData_default.children,
            IF "enabled" \in DOMAIN j.v THEN j.v.enabled.v ELSE RowData_default.enabled,
            IF "expanded" \in DOMAIN j.v THEN j.v.expanded.v ELSE RowData_default.expanded,
            IF "edit_name" \in DOMAIN j.v THEN j.v.edit_name.v ELSE RowData_default.edit_name)

\* Deserialize for TreeTable succeeds; the struct has no #[serde(default)]:
\* title_text, column_configs and root_row are all required
TreeTable_ok(j) ==
    /\ j.t = "object"
    /\ FieldOk(j.v, "title_text", "string", FALSE)
    /\ FieldOk(j.v, "column_configs", "array", FALSE)
    /\ \A i \in 1..Len(j.v.column_configs.v) : ColumnConfig_ok(j.v.column_configs.v[i])
    /\ "root_row" \in DOMAIN j.v
    /\ RowData_ok(j.v.root_row)

\* Deserialize for TreeTable
TreeTable_from_json(j) ==
    [title_text |-> j.v.title_text.v,
     column_configs |->
        [i \in 1..Len(j.v.column_configs.v) |-> ColumnConfig_from_json(j.v.column_configs.v[i], i)],
     root_row |-> RowData_from_json(j.v.root_row)]

----------------------------------------------------------------------------
(* TreeTablesApp: construction *)

\* const VALID_FILE_EXTENSIONS
VALID_FILE_EXTENSIONS == {"tt", "json", "ttable"}

\* a file path: its stem and its extension
Path(stem, ext) == [stem |-> stem, ext |-> ext]

\* PathBuf::set_extension
set_extension(path, ext) == [path EXCEPT !.ext = ext]

\* the column identities of impl Default for TreeTablesApp
Materialkosten == "2387c84a-2c68-405e-a342-d94a1dde6408"
Arbeitszeit == "94869fe6-c736-4c88-be7f-8084679d78fc"
Verkaufspreis == "5aafbaab-6c03-4e8f-9fc4-cfb66ed2fb16"

\* tree_table of impl Default for TreeTablesApp (the name "SUM" stands for the
\* summation sign and the unit "EUR" for the euro sign of the source)
TreeTable_default ==
    [title_text |-> "Tree Tables",
     column_configs |-> <<
        ColumnConfig(Materialkosten, "Materialkosten", "EUR", Number),
        ColumnConfig(Arbeitszeit, "Arbeitszeit", "h", Number),
        ColumnConfig(Verkaufspreis, "Verkaufspreis", "EUR",
                     MultiplyByFactor(Materialkosten, 100)) >>,
     root_row |->
        RowData("SUM", EmptyMap,
                << RowData("A", Insert(EmptyMap, Materialkosten, 1), <<>>, TRUE, FALSE, FALSE) >>,
                TRUE, FALSE, FALSE)]

\* no file operation in this frame
NoFile == [kind |-> "none"]
NoIo == [op |-> "none", ok |-> TRUE, was_modified |-> FALSE,
         was_filename |-> Path("", ""), path |-> Path("", ""), file |-> NoFile]

\* no click or drag on the row grid in this frame
NoEvent == [kind |-> "none", path |-> <<>>, col |-> 0, was_modified |-> FALSE,
            before |-> RowData_default]

NoPass(column_configs, root_row) ==
    [n |-> 0, column_configs |-> column_configs, before |-> root_row, after |-> root_row,
     added |-> NoEvent]

\* impl Default for TreeTablesApp
Init ==
    /\ tree_table = TreeTable_default
    /\ filename = Path("unnamed", "tt")
    /\ file_modified = TRUE
    /\ edit_column_idx = <<>>
    /\ close_requested = FALSE
    /\ process = "running"
    /\ io = NoIo
    /\ ui_event = NoEvent
    /\ last_pass = NoPass(TreeTable_default.column_configs, TreeTable_default.root_row)

----------------------------------------------------------------------------
(* The files the Open dialog can pick *)

\* the paths the file dialogs return
PickPaths == {Path("doc", ext) : ext \in VALID_FILE_EXTENSIONS}

FileSchemas ==
    { <<>>,
      << ColumnConfig("a", "A", "EUR", Number),
         ColumnConfig("b", "B", "EUR", MultiplyByFactor("a", 2)) >>,
      << ColumnConfig("a", "A", "", Text),
         ColumnConfig("b", "B", "", RowSum(<<"a">>)) >> }

FileTrees ==
    { RowData("r", Insert(EmptyMap, "a", 1), <<>>, TRUE, TRUE, FALSE) }
      \cup { RowData("r", EmptyMap,
                     << RowData("c", Insert(EmptyMap, "a", 1), <<>>, en, TRUE, FALSE) >>,
                     TRUE, TRUE, FALSE) : en \in BOOLEAN }

\* documents that were saved to a file
FileTables ==
    {[title_text |-> "doc", column_configs |-> cfgs, root_row |-> root] :
        cfgs \in FileSchemas, root \in FileTrees}

\* a JSON object without one of its fields
WithoutField(j, f) == JObj([k \in (DOMAIN j.v) \ {f} |-> j.v[k]])

\* a JSON row, and all rows below it, without one field (a file of an older version)
RECURSIVE RowWithoutField(_, _)
RowWithoutField(j, f) ==
    JObj([k \in (DOMAIN j.v) \ {f} |->
            IF k = "children"
            THEN JArr([i \in 1..Len(j.v.children.v) |-> RowWithoutField(j.v.children.v[i], f)])
            ELSE j.v[k]])

JsonFile(j) == [kind |-> "json", value |-> j]

\* file contents: not readable, not JSON, a saved document, a saved document
\* lacking one top-level field, a saved document whose rows lack enabled
Files ==
    {[kind |-> "unreadable"], [kind |-> "malformed"]}
      \cup {JsonFile(TreeTable_to_json(tt)) : tt \in FileTables}
      \cup {JsonFile(WithoutField(TreeTable_to_json(tt), f)) :
                tt \in FileTables, f \in {"title_text", "column_configs", "root_row"}}
      \cup {JsonFile([TreeTable_to_json(tt) EXCEPT
                        !.v.root_row = RowWithoutField(@, "enabled")]) : tt \in FileTables}

----------------------------------------------------------------------------
(* RowData::render: the rows of the grid.  A frame carries at most one      *)
(* click or drag; click.path leads from the rendered row to the row that    *)
(* takes it, click.kind says which widget: "expand", "checkbox", "drag",    *)
(* "remove" or "add".                                                       *)

NoClick == [kind |-> "none", path |-> <<>>, col |-> 0, value |-> 0]

\* ColumnType::is_editable
is_editable(col_type) == col_type.tag \in {"Number", "Text"}

\* if self.col_data.get(col_id).is_none() { insert(col_id, 0.0) }, for every column
FillColumns(col_data, column_configs) ==
    [k \in (DOMAIN col_data) \cup {column_configs[i].id : i \in 1..Len(column_configs)} |->
        IF k \in DOMAIN col_data THEN col_data[k] ELSE 0]

\* the child pushed by the '+' button of a row
NewChild(self, column_configs) ==
    RowData("",
            [k \in {column_configs[i].id : i \in 1..Len(column_configs)} |->
                IF Len(self.children) = 0 THEN Get(self.col_data, k) ELSE 0],
            <<>>, TRUE, FALSE, TRUE)

\* the index remove_idx is left with: the last child that returned Action::Remove
\* (0 when none did)
RemoveIdx(results) ==
    LET S == {i \in 1..Len(results) : results[i].action = "Remove"}
    IN  IF S = {} THEN 0 ELSE CHOOSE i \in S : \A j \in S : j <= i

\* a slip: the last child is removed, whichever child asked
RemoveLastChild(children, idx) == SubSeq(children, 1, Len(children) - 1)

\* self.children.remove(i) when remove_idx is Some(i)
RemoveChild(children, idx) ==
    [i \in 1..(Len(children) - 1) |-> IF i < idx THEN children[i] ELSE children[i + 1]]

\* RowData::render: the row it leaves and the Option<Action> it returns
RECURSIVE render(_, _, _)
render(self, column_configs, click) ==
    LET here == click.kind # "none" /\ click.path = <<>>
        below == click.kind # "none" /\ click.path # <<>>
        \* the expand button and the checkbox
        head == [self EXCEPT
                    !.expanded = IF here /\ click.kind = "expand" THEN ~@ ELSE @,
                    !.enabled = IF here /\ click.kind = "checkbox" THEN ~@ ELSE @]
        \* the cells of the row
        filled == FillColumns(head.col_data, column_configs)
        cells == IF here /\ click.kind = "drag"
                 THEN Insert(filled, column_configs[click.col].id, click.value)
                 ELSE filled
        own == IF here /\ click.kind = "drag" THEN "Modified"
               ELSE IF here /\ click.kind = "remove" THEN "Remove"
               ELSE "None"
        \* the children, when expanded
        results == [i \in 1..Len(head.children) |->
                        render(head.children[i], column_configs,
                               IF below /\ click.path[1] = i
                               THEN [click EXCEPT !.path = Tail(@)]
                               ELSE NoClick)]
        rendered == [i \in 1..Len(head.children) |-> results[i].row]
        remove_idx == RemoveIdx(results)
        kept == IF remove_idx # 0 THEN RemoveChild(rendered, remove_idx) ELSE rendered
        with_child == [head EXCEPT !.col_data = cells, !.children = kept]
        plus == here /\ click.kind = "add"
    IN  IF head.expanded
        THEN [row |-> [head EXCEPT
                        !.col_data = cells,
                        !.children = IF plus
                                     THEN Append(kept, NewChild(with_child, column_configs))
                                     ELSE kept],
              action |-> IF plus \/ remove_idx # 0 THEN "Modified"
                         ELSE IF \E i \in 1..Len(results) : results[i].action = "Modified"
                              THEN "Modified"
                              ELSE own]
        ELSE [row |-> [head EXCEPT !.col_data = cells], action |-> own]

\* the rows render visits: the root, and the children of a visited row that
\* is expanded
RECURSIVE ShownPaths(_)
ShownPaths(row) ==
    {<<>>} \cup (IF row.expanded
                 THEN UNION {{<<i>> \o p : p \in ShownPaths(row.children[i])} :
                                i \in 1..Len(row.children)}
                 ELSE {})

\* the document after a render without any click
Shown(tt) == [tt EXCEPT !.root_row = render(@, tt.column_configs, NoClick).row]

----------------------------------------------------------------------------
(* TreeTablesApp::update: one frame.  Every frame first runs the update     *)
(* pass on the root, then handles the event of the frame, then shows the    *)
(* "Edit column" window when edit_column_idx is Some.                       *)

\* the panic messages of the source
PanicTodo == "not yet implemented: Pleas implement the RowSum function!"
PanicRead == "Should have been able to read the file"
PanicJson == "JSON data is corrupted."
PanicUnwrap == "called Option::unwrap() on a None value"

\* the document after self.tree_table.root_row.update(&self.tree_table.column_configs)
Updated == [tree_table EXCEPT !.root_row = update(@, tree_table.column_configs)]

\* the pass of this frame; added is the click on '+' of the frame before, if any
ThisPass ==
    [n |-> 1, column_configs |-> tree_table.column_configs,
     before |-> tree_table.root_row, after |-> Updated.root_row,
     added |-> IF ui_event.kind = "add" THEN ui_event ELSE NoEvent]

\* the frame can start and its pass completes
FrameStarts ==
    /\ process = "running"
    /\ ~update_panics(tree_table.root_row, tree_table.column_configs)

\* column_configs.get(self.edit_column_idx.unwrap()).unwrap() of the
\* "Edit column" window finds no column
EditWindowPanics(tt, idx) ==
    idx # <<>> /\ idx[1] >= Len(tt.column_configs)

\* the state at the end of a frame that left these values
FrameEnds(tt, fname, fmod, idx, closereq, result, event, proc) ==
    /\ tree_table' = tt
    /\ filename' = fname
    /\ file_modified' = fmod
    /\ edit_column_idx' = idx
    /\ close_requested' = closereq
    /\ io' = result
    /\ ui_event' = event
    /\ last_pass' = ThisPass
    /\ process' = IF proc = "running" /\ EditWindowPanics(tt, idx) THEN PanicUnwrap ELSE proc

\* the end of a frame whose handlers above the row grid left these values and
\* whose grid takes no click: the rows are rendered unless the frame has
\* panicked before
EndFrame(tt, fname, fmod, idx, closereq, result, proc) ==
    FrameEnds(IF proc \in {PanicRead, PanicJson} THEN tt ELSE Shown(tt),
              fname, fmod, idx, closereq, result, NoEvent, proc)

\* the frame's pass reaches todo!(): the process aborts inside the pass
FramePanics ==
    /\ process = "running"
    /\ update_panics(tree_table.root_row, tree_table.column_configs)
    /\ process' = PanicTodo
    /\ UNCHANGED <<tree_table, filename, file_modified, edit_column_idx,
                   close_requested, io, ui_event, last_pass>>

\* a frame without any event
Idle ==
    /\ FrameStarts
    /\ EndFrame(Updated, filename, file_modified, edit_column_idx, close_requested,
                NoIo, "running")

\* the viewport reports a close request: the close is cancelled when the
\* document is modified, else the window closes
ViewportCloseRequested ==
    /\ FrameStarts
    /\ EndFrame(Updated, filename, file_modified, edit_column_idx, TRUE, NoIo,
                IF file_modified THEN "running" ELSE "exited")

\* TreeTable::save_to_file: the outcome of File::create and file.write is
\* the file system's (ok); nothing of it is returned to the caller
save_to_file(tt, file_path, ok) ==
    [op |-> "save", ok |-> ok, was_modified |-> file_modified, was_filename |-> filename,
     path |-> file_path,
     file |-> IF ok THEN JsonFile(TreeTable_to_json(tt)) ELSE NoFile]

\* "Yes, save!" of the "Unsaved changes" window
CloseYesSave ==
    /\ FrameStarts
    /\ close_requested
    /\ \E ok \in BOOLEAN :
          EndFrame(Updated, filename, FALSE, edit_column_idx, close_requested,
                   save_to_file(Updated, filename, ok), "exited")

\* "No, revert all changes and quit!" of the "Unsaved changes" window
CloseNoRevert ==
    /\ FrameStarts
    /\ close_requested
    /\ EndFrame(Updated, filename, FALSE, edit_column_idx, close_requested, NoIo, "exited")

\* the save shortcut is pressed
SaveShortcut ==
    /\ FrameStarts
    /\ \E ok \in BOOLEAN :
          EndFrame(Updated, filename, FALSE, edit_column_idx, close_requested,
                   save_to_file(Updated, filename, ok), "running")

\* the "Open" button when the dialog returns this path and the file has this
\* content
OpenFile(path, content) ==
          LET result == [op |-> "open", ok |-> FALSE, was_modified |-> file_modified,
                         was_filename |-> filename, path |-> path, file |-> content]
          IN  IF content.kind = "unreadable"
              THEN EndFrame(Updated, filename, file_modified, <<>>, close_requested,
                            result, PanicRead)
              ELSE IF content.kind = "malformed" \/ ~TreeTable_ok(content.value)
              THEN EndFrame(Updated, filename, file_modified, <<>>, close_requested,
                            result, PanicJson)
              ELSE EndFrame(TreeTable_from_json(content.value), path, FALSE,
                            edit_column_idx, close_requested,
                            [result EXCEPT !.ok = TRUE], "running")

\* the "Open" button; a cancelled dialog is an Idle frame
Open ==
    /\ FrameStarts
    /\ \E path \in PickPaths, content \in Files : OpenFile(path, content)

\* the "Open" button of a user who opens documents saved earlier: those of
\* FileTables that have columns and a root without children
SavedFiles ==
    {JsonFile(TreeTable_to_json(tt)) :
        tt \in {t \in FileTables : t.column_configs # <<>> /\ IsLeaf(t.root_row)}}
OpenSaved ==
    /\ FrameStarts
    /\ \E content \in SavedFiles : OpenFile(Path("doc", "tt"), content)

\* the "Save" button
Save ==
    /\ FrameStarts
    /\ \E ok \in BOOLEAN :
          EndFrame(Updated, filename, FALSE, edit_column_idx, close_requested,
                   save_to_file(Updated, filename, ok), "running")

\* the "Save as" button; a cancelled dialog is an Idle frame
SaveAs ==
    /\ FrameStarts
    /\ \E path \in PickPaths, ok \in BOOLEAN :
          EndFrame(Updated, set_extension(path, "tt"), FALSE, edit_column_idx,
                   close_requested,
                   save_to_file(Updated, set_extension(path, "tt"), ok), "running")

\* a column header is double-clicked
HeaderDoubleClicked ==
    /\ FrameStarts
    /\ \E col_idx \in 0..(Len(tree_table.column_configs) - 1) :
          EndFrame(Updated, filename, file_modified, <<col_idx>>, close_requested,
                   NoIo, "running")

\* "OK" of the "Edit column" window
EditColumnOk ==
    /\ FrameStarts
    /\ edit_column_idx # <<>>
    /\ EndFrame(Updated, filename, file_modified, <<>>, close_requested, NoIo, "running")

\* Vec::remove(index), index 0-based
remove(v, index) == [i \in 1..(Len(v) - 1) |-> IF i <= index THEN v[i] ELSE v[i + 1]]

\* the remove button of the "Edit column" window
EditColumnRemove ==
    /\ FrameStarts
    /\ edit_column_idx # <<>>
    /\ FrameEnds([Shown(Updated) EXCEPT !.column_configs = remove(@, edit_column_idx[1])],
                 filename, file_modified, <<>>, close_requested, NoIo, NoEvent, "running")

\* impl Default for ColumnConfig, with the identity Uuid::new_v4() returned
ColumnConfig_default(uuid) == ColumnConfig(uuid, "", "EUR", Number)

\* the identities a document mentions: of its columns, of the sources of its
\* MultiplyByFactor columns, and of the entries of its rows
UsedIds(tt) ==
    {tt.column_configs[i].id : i \in 1..Len(tt.column_configs)}
      \cup {tt.column_configs[i].col_type.input_col_id :
                i \in {k \in 1..Len(tt.column_configs) :
                            tt.column_configs[k].col_type.tag = "MultiplyByFactor"}}
      \cup UNION {DOMAIN RowAt(tt.root_row, p).col_data : p \in PathsOf(tt.root_row)}

\* Uuid::new_v4(): an identity the document does not mention yet
FreshUuids(tt) ==
    {UuidPool[i] : i \in {k \in 1..Len(UuidPool) :
                            /\ UuidPool[k] \notin UsedIds(tt)
                            /\ \A j \in 1..(k - 1) : UuidPool[j] \in UsedIds(tt)}}

\* the '+' button right of the column headers
AddColumn ==
    /\ FrameStarts
    /\ \E uuid \in FreshUuids(Updated) :
          EndFrame([Updated EXCEPT !.column_configs = Append(@, ColumnConfig_default(uuid))],
                   filename, file_modified, <<Len(Updated.column_configs)>>,
                   close_requested, NoIo, "running")

\* a frame whose row grid takes one click or drag
GridFrame(click) ==
    LET r == render(Updated.root_row, Updated.column_configs, click)
    IN  FrameEnds([Updated EXCEPT !.root_row = r.row], filename,
                  IF r.action = "Modified" THEN TRUE ELSE file_modified,
                  edit_column_idx, close_requested, NoIo,
                  [kind |-> click.kind, path |-> click.path, col |-> click.col,
                   was_modified |-> file_modified, before |-> Updated.root_row],
                  "running")

\* the expand button of a row
ExpandClicked ==
    /\ FrameStarts
    /\ \E p \in ShownPaths(Updated.root_row) :
          GridFrame([NoClick EXCEPT !.kind = "expand", !.path = p])

\* the enabled checkbox of a row; the root (indent_level 0) has none
CheckboxClicked ==
    /\ FrameStarts
    /\ \E p \in ShownPaths(Updated.root_row) :
          /\ p # <<>>
          /\ GridFrame([NoClick EXCEPT !.kind = "checkbox", !.path = p])

\* the DragValue of a cell: the row is a leaf, the column is editable, the
\* row and its parent are enabled, and the value changes
ValueDragged ==
    /\ FrameStarts
    /\ \E p \in ShownPaths(Updated.root_row),
             k \in 1..Len(Updated.column_configs), v \in DragValues :
          LET row == RowAt(Updated.root_row, p)
              parent_enabled ==
                  IF p = <<>> THEN TRUE
                  ELSE RowAt(Updated.root_row, SubSeq(p, 1, Len(p) - 1)).enabled
          IN  /\ IsLeaf(row)
              /\ is_editable(Updated.column_configs[k].col_type)
              /\ row.enabled /\ parent_enabled
              /\ v # Get(row.col_data, Updated.column_configs[k].id)
              /\ GridFrame([kind |-> "drag", path |-> p, col |-> k, value |-> v])

\* the remove button of a row
RemoveClicked ==
    /\ FrameStarts
    /\ \E p \in ShownPaths(Updated.root_row) :
          GridFrame([NoClick EXCEPT !.kind = "remove", !.path = p])

\* the '+' button below the children of an expanded row
AddClicked ==
    /\ FrameStarts
    /\ Cardinality(PathsOf(Updated.root_row)) < MaxRows
    /\ \E p \in ShownPaths(Updated.root_row) :
          /\ RowAt(Updated.root_row, p).expanded
          /\ GridFrame([NoClick EXCEPT !.kind = "add", !.path = p])

Next ==
    \/ FramePanics
    \/ Idle
    \/ ViewportCloseRequested
    \/ CloseYesSave
    \/ CloseNoRevert
    \/ SaveShortcut
    \/ Open
    \/ Save
    \/ SaveAs
    \/ HeaderDoubleClicked
    \/ EditColumnOk
    \/ EditColumnRemove

Spec == Init /\ [][Next]_vars

\* the session of a user who edits the columns and opens documents
ColumnNext ==
    \/ Idle
    \/ OpenSaved
    \/ HeaderDoubleClicked
    \/ AddColumn
    \/ EditColumnOk
    \/ EditColumnRemove

ColumnSpec == Init /\ [][ColumnNext]_vars

\* the session of a user who opens and saves documents and adds, removes,
\* expands, enables and disables rows
EditNext ==
    \/ FramePanics
    \/ Idle
    \/ OpenSaved
    \/ Save
    \/ ExpandClicked
    \/ CheckboxClicked
    \/ RemoveClicked
    \/ AddClicked

EditSpec == Init /\ [][EditNext]_vars

\* the session of a user who enters values into the cells and saves
EntryNext ==
    \/ Idle
    \/ Save
    \/ ExpandClicked
    \/ ValueDragged

EntrySpec == Init /\ [][EntryNext]_vars

----------------------------------------------------------------------------
(* The update pass applied to every input: specification EngineSpec *)

EngineInit ==
    /\ \E cfgs \in SchemaInputs, root \in TreeInputs :
          /\ tree_table = [title_text |-> "", column_configs |-> cfgs, root_row |-> root]
          /\ last_pass = NoPass(cfgs, root)
    /\ filename = Path("unnamed", "tt")
    /\ file_modified = TRUE
    /\ edit_column_idx = <<>>
    /\ close_requested = FALSE
    /\ process = "running"
    /\ io = NoIo
    /\ ui_event = NoEvent

\* one call of tree_table.root_row.update(&tree_table.column_configs), no edit
\* before the next one
RunUpdate ==
    /\ process = "running"
    /\ last_pass.n < MaxPasses
    /\ IF update_panics(tree_table.root_row, tree_table.column_configs)
       THEN /\ process' = PanicTodo
            /\ UNCHANGED <<tree_table, last_pass>>
       ELSE /\ tree_table' = Updated
            /\ last_pass' = [ThisPass EXCEPT !.n = last_pass.n + 1]
            /\ UNCHANGED process
    /\ UNCHANGED <<filename, file_modified, edit_column_idx, close_requested, io,
                   ui_event>>

EngineNext == RunUpdate

EngineSpec == EngineInit /\ [][EngineNext]_vars

----------------------------------------------------------------------------
(* Properties of the update pass *)

\* the schema, input and output of the last pass
Cfgs == last_pass.column_configs
Before(p) == RowAt(last_pass.before, p)
After(p) == RowAt(last_pass.after, p)

ColumnsOf(tag) == {k \in 1..Len(Cfgs) : Cfgs[k].col_type.tag = tag}
SchemaIds == {Cfgs[k].id : k \in 1..Len(Cfgs)}

\* two value maps agree on one identity: same value, and absent in both or in neither
SameEntry(m1, m2, id) ==
    /\ (id \in DOMAIN m1) <=> (id \in DOMAIN m2)
    /\ Get(m1, id) = Get(m2, id)

\* the sum of value[i] over the enabled ones of the first n children
RECURSIVE SumOverEnabled(_, _, _)
SumOverEnabled(children, value, n) ==
    IF n = 0 THEN 0
    ELSE SumOverEnabled(children, value, n - 1)
            + (IF children[n].enabled THEN value[n] ELSE 0)

\* the sum of Value(child) over the enabled children
EnabledSum(children, Value(_)) ==
    SumOverEnabled(children, [i \in 1..Len(children) |-> Value(children[i])], Len(children))

\* no MultiplyByFactor column takes its source from a MultiplyByFactor column
\* declared at the same or a later position of the schema
NoStaleSource ==
    \A k \in ColumnsOf("MultiplyByFactor") :
        \A j \in k..Len(Cfgs) :
            ~(Cfgs[j].id = Cfgs[k].col_type.input_col_id
                /\ Cfgs[j].col_type.tag = "MultiplyByFactor")

\* C1 as stated: a second update pass right after the first changes no row,
\* for every tree and every schema
C1_IdempotenceAnySchema ==
    last_pass.n >= 2 => last_pass.after = last_pass.before

\* C1 amended: a second update pass right after the first changes no row,
\* provided no MultiplyByFactor column takes its source from a MultiplyByFactor
\* column declared at the same or a later position
C1_Idempotence ==
    (last_pass.n >= 2 /\ NoStaleSource) => last_pass.after = last_pass.before

\* two passes ran on a three-level tree whose schema has a MultiplyByFactor
\* column over a stored source, and the root holds a scaled total
C1_Witness ==
    /\ last_pass.n = 2
    /\ NoStaleSource
    /\ <<1, 1>> \in PathsOf(last_pass.after)
    /\ \E k \in ColumnsOf("MultiplyByFactor") :
          /\ Cfgs[k].col_type.input_col_id \in SchemaIds
          /\ Get(After(<<>>).col_data, Cfgs[k].id) > 0

\* C2: after a pass every row with children holds, in every Number column,
\* the sum of the values its enabled children hold at the end of the pass
C2_SumCorrectness ==
    last_pass.n >= 1 =>
        \A p \in PathsOf(last_pass.after) : \A k \in ColumnsOf("Number") :
            LET row == After(p)
                id == Cfgs[k].id
                Stored(child) == Get(child.col_data, id)
            IN  ~IsLeaf(row) =>
                    /\ id \in DOMAIN row.col_data
                    /\ row.col_data[id] = EnabledSum(row.children, Stored)

\* a pass ran on a root with an enabled and a disabled child that both store
\* a value in a Number column, and the root holds the enabled one only
C2_Witness ==
    /\ last_pass.n >= 1
    /\ \E k \in ColumnsOf("Number") :
          LET root == After(<<>>)
              id == Cfgs[k].id
          IN  /\ Len(root.children) = 2
              /\ \E i, j \in 1..2 :
                    /\ root.children[i].enabled /\ ~root.children[j].enabled
                    /\ Get(root.children[i].col_data, id) = 1
                    /\ Get(root.children[j].col_data, id) = 1
              /\ Get(root.col_data, id) = 1

\* C3: a pass leaves every entry of a Number column on a leaf row as it was,
\* the value if stored and the absence if not
C3_LeafPreservation ==
    last_pass.n >= 1 =>
        \A p \in PathsOf(last_pass.before) : \A k \in ColumnsOf("Number") :
            IsLeaf(Before(p)) =>
                SameEntry(Before(p).col_data, After(p).col_data, Cfgs[k].id)

\* a pass changed the tree and left alone a leaf below the root that stores
\* one Number column and lacks another
C3_Witness ==
    /\ last_pass.n >= 1
    /\ last_pass.after # last_pass.before
    /\ \E p \in PathsOf(last_pass.before) : \E k, j \in ColumnsOf("Number") :
          /\ Len(p) > 0
          /\ IsLeaf(Before(p))
          /\ Cfgs[k].id \in DOMAIN After(p).col_data
          /\ Cfgs[j].id \notin DOMAIN After(p).col_data

\* C4 as stated: after a pass every leaf row, a childless root included,
\* holds factor * (its own source value) in every MultiplyByFactor column
C4_ScaleOnLeaves ==
    last_pass.n >= 1 =>
        \A p \in PathsOf(last_pass.after) : \A k \in ColumnsOf("MultiplyByFactor") :
            IsLeaf(After(p)) =>
                Get(After(p).col_data, Cfgs[k].id)
                    = Cfgs[k].col_type.factor
                        * Get(After(p).col_data, Cfgs[k].col_type.input_col_id)

\* C5 as stated: after a pass every row with children holds, in every
\* MultiplyByFactor column, the sum over its enabled children of
\* factor * (child's source value), and each child holds factor * (its own
\* source value)
C5_ScaleOnInteriorRows ==
    last_pass.n >= 1 =>
        \A p \in PathsOf(last_pass.after) : \A k \in ColumnsOf("MultiplyByFactor") :
            LET row == After(p)
                id == Cfgs[k].id
                Scaled(child) ==
                    Cfgs[k].col_type.factor * Get(child.col_data, Cfgs[k].col_type.input_col_id)
            IN  ~IsLeaf(row) =>
                    /\ Get(row.col_data, id) = EnabledSum(row.children, Scaled)
                    /\ \A i \in 1..Len(row.children) :
                          Get(row.children[i].col_data, id) = Scaled(row.children[i])

\* C5 amended: provided no MultiplyByFactor column takes its source from a
\* MultiplyByFactor column declared at the same or a later position, after a
\* pass every child of a row holds factor * (its own source value) in every
\* MultiplyByFactor column, and the root, when it has children, holds the sum
\* of that over its enabled children
C5_ScaleOnChildrenAndRoot ==
    (last_pass.n >= 1 /\ NoStaleSource) =>
        \A p \in PathsOf(last_pass.after) : \A k \in ColumnsOf("MultiplyByFactor") :
            LET row == After(p)
                id == Cfgs[k].id
                Scaled(child) ==
                    Cfgs[k].col_type.factor * Get(child.col_data, Cfgs[k].col_type.input_col_id)
            IN  ~IsLeaf(row) =>
                    /\ \A i \in 1..Len(row.children) :
                          /\ id \in DOMAIN row.children[i].col_data
                          /\ row.children[i].col_data[id] = Scaled(row.children[i])
                    /\ Len(p) = 0 =>
                          /\ id \in DOMAIN row.col_data
                          /\ row.col_data[id]
                                = EnabledSum(row.children, Scaled)

\* a pass ran on a three-level tree: the row in the middle holds
\* factor * (its own source value), which is not the scaled sum of its children
C5_Witness ==
    /\ last_pass.n >= 1
    /\ NoStaleSource
    /\ <<1, 1>> \in PathsOf(last_pass.after)
    /\ \E k \in ColumnsOf("MultiplyByFactor") :
          LET row == After(<<1>>)
              Scaled(child) ==
                  Cfgs[k].col_type.factor * Get(child.col_data, Cfgs[k].col_type.input_col_id)
          IN  /\ Get(row.col_data, Cfgs[k].id) = Scaled(row)
              /\ Get(row.col_data, Cfgs[k].id)
                    # EnabledSum(row.children, Scaled)
              /\ Get(After(<<>>).col_data, Cfgs[k].id) > 0

\* C6 as stated: after a pass, a MultiplyByFactor column whose source identity
\* is not in the schema holds 0 on every row
C6_DanglingSourceIsZero ==
    last_pass.n >= 1 =>
        \A p \in PathsOf(last_pass.after) : \A k \in ColumnsOf("MultiplyByFactor") :
            Cfgs[k].col_type.input_col_id \notin SchemaIds =>
                Get(After(p).col_data, Cfgs[k].id) = 0

\* C7 as stated: a pass leaves every entry of a Text column on every row as
\* it was, the value if stored and the absence if not
C7_TextUntouched ==
    last_pass.n >= 1 =>
        \A p \in PathsOf(last_pass.before) : \A k \in ColumnsOf("Text") :
            SameEntry(Before(p).col_data, After(p).col_data, Cfgs[k].id)

\* the JSON row at a position of a JSON row
RECURSIVE JsonRowAt(_, _)
JsonRowAt(j, p) ==
    IF Len(p) = 0 THEN j ELSE JsonRowAt(j.v.children.v[p[1]], SubSeq(p, 2, Len(p)))

\* C8 as stated: a loaded row whose JSON lacks "enabled" is enabled, and a
\* file that lacks only "column_configs" loads with an empty schema
C8_DefaultingOnPartialInput ==
    (io.op = "open" /\ io.file.kind = "json") =>
        LET j == io.file.value
            complete == JObj([k \in (DOMAIN j.v) \cup {"column_configs"} |->
                                IF k = "column_configs" THEN JArr(<<>>) ELSE j.v[k]])
        IN  /\ ("column_configs" \notin DOMAIN j.v /\ TreeTable_ok(complete)) =>
                    (io.ok /\ tree_table.column_configs = <<>>)
            /\ io.ok =>
                    \A p \in PathsOf(tree_table.root_row) :
                        "enabled" \notin DOMAIN JsonRowAt(j.v.root_row, p).v =>
                            RowAt(tree_table.root_row, p).enabled

\* C9 as stated: after a save that could not write the file, a document that
\* was modified is still marked modified, and it is the document of before
C9_SaveFailureKeepsModified ==
    (io.op = "save" /\ ~io.ok /\ io.was_modified) =>
        /\ file_modified
        /\ tree_table.root_row
                = render(last_pass.after, last_pass.column_configs, NoClick).row
        /\ tree_table.column_configs = last_pass.column_configs

\* C10 as stated: after an Open of a file that cannot be read or deserialized
\* the process runs on, with the document, filename and file_modified of before
C10_CorruptOpenKeepsRunning ==
    (io.op = "open" /\ ~io.ok) =>
        /\ process = "running"
        /\ filename = io.was_filename
        /\ file_modified = io.was_modified
        /\ tree_table.root_row = last_pass.after
        /\ tree_table.column_configs = last_pass.column_configs

----------------------------------------------------------------------------
(* Properties of the row grid, of persistence and of the column editor *)

\* the row a click of the last frame went to, before the click and now
Clicked == RowAt(ui_event.before, ui_event.path)

\* two rows agree in what they hold themselves: name, flags and the value of
\* every identity (an absent entry reads as 0.0)
SameCells(r1, r2) ==
    /\ r1.name = r2.name
    /\ r1.enabled = r2.enabled
    /\ r1.expanded = r2.expanded
    /\ r1.edit_name = r2.edit_name
    /\ \A id \in (DOMAIN r1.col_data) \cup (DOMAIN r2.col_data) :
            Get(r1.col_data, id) = Get(r2.col_data, id)

\* two trees agree row by row
SameTree(t1, t2) ==
    /\ PathsOf(t1) = PathsOf(t2)
    /\ \A r \in PathsOf(t1) : SameCells(RowAt(t1, r), RowAt(t2, r))

\* p is a prefix of r
IsPrefix(p, r) == Len(p) <= Len(r) /\ SubSeq(r, 1, Len(p)) = p

\* the position a row at position r had before the row at position p (not the
\* root) was detached: the later siblings of p, and the rows below them, have
\* moved up by one
Origin(r, p) ==
    LET n == Len(p)
    IN  IF n <= Len(r) /\ SubSeq(r, 1, n - 1) = SubSeq(p, 1, n - 1) /\ r[n] >= p[n]
        THEN [r EXCEPT ![n] = @ + 1]
        ELSE r

\* the tree now is the tree before without the row at p and the rows below it
Detached(before, now, p) ==
    /\ {Origin(r, p) : r \in PathsOf(now)} = {r \in PathsOf(before) : ~IsPrefix(p, r)}
    /\ \A r \in PathsOf(now) : SameCells(RowAt(now, r), RowAt(before, Origin(r, p)))

\* C11 as stated: a click on the enabled checkbox of a row below the root,
\* while file_modified is false, leaves file_modified true
C11_SetEnabledMarksDirty ==
    (ui_event.kind = "checkbox" /\ ~ui_event.was_modified) => file_modified

\* C12 as stated: a click on '+' of a row P sets file_modified, and the update
\* pass that follows leaves P's value in every Number and every
\* MultiplyByFactor column what it was before the click
C12_AddChildPreservesTotals ==
    /\ ui_event.kind = "add" => file_modified
    /\ last_pass.added.kind = "add" =>
            \A k \in ColumnsOf("Number") \cup ColumnsOf("MultiplyByFactor") :
                Get(RowAt(last_pass.after, last_pass.added.path).col_data, Cfgs[k].id)
                    = Get(RowAt(last_pass.added.before, last_pass.added.path).col_data,
                          Cfgs[k].id)

\* C13 as stated: a click on the remove button of any row, the root included,
\* takes that row and the rows below it out of the tree, leaves all other rows
\* as they were, and sets file_modified
C13_RemoveAnyRow ==
    ui_event.kind = "remove" =>
        /\ file_modified
        /\ IF ui_event.path = <<>>
           THEN ~SameTree(ui_event.before, tree_table.root_row)
           ELSE Detached(ui_event.before, tree_table.root_row, ui_event.path)

\* C13 amended: a click on the remove button of a row below the root takes
\* that row and the rows below it out of the tree, leaves all other rows as
\* they were, and sets file_modified; a click on the remove button of the root
\* changes no row and leaves file_modified as it was
C13_RemoveBelowRoot ==
    ui_event.kind = "remove" =>
        IF ui_event.path = <<>>
        THEN /\ SameTree(ui_event.before, tree_table.root_row)
             /\ file_modified = ui_event.was_modified
        ELSE /\ Detached(ui_event.before, tree_table.root_row, ui_event.path)
             /\ file_modified

\* the first of two children of the root was removed from a saved document:
\* its sibling has moved up and the document is modified again
C13_Witness ==
    /\ ui_event.kind = "remove"
    /\ ui_event.path = <<1>>
    /\ ~ui_event.was_modified
    /\ Len(ui_event.before.children) = 2
    /\ Len(tree_table.root_row.children) = 1
    /\ ui_event.before.children[1].name # ui_event.before.children[2].name
    /\ tree_table.root_row.children[1].name = ui_event.before.children[2].name
    /\ file_modified

\* C14 as stated: the text save_to_file writes deserializes, and to the
\* document that was saved
C14_RoundTrip ==
    (io.op = "save" /\ io.ok) =>
        /\ TreeTable_ok(io.file.value)
        /\ TreeTable_from_json(io.file.value)
                = [title_text |-> tree_table.title_text,
                   column_configs |-> last_pass.column_configs,
                   root_row |-> last_pass.after]

\* some column of the schema of the last pass is a RowSum column
HasRowSum == ColumnsOf("RowSum") # {}

\* C15 as stated: the pass completes on every schema without a RowSum column,
\* and ends in the 'not implemented' panic on every schema with one, whatever
\* the tree
C15_FailurePolicy ==
    /\ process = PanicTodo => HasRowSum
    /\ last_pass.n >= 1 => ~HasRowSum

\* C16 as stated: an edit_column_idx of Some(i) has i below the number of
\* columns, and the lookup of the "Edit column" window never fails
C16_EditIndexValid ==
    /\ edit_column_idx # <<>> => edit_column_idx[1] < Len(tree_table.column_configs)
    /\ process # PanicUnwrap

====
